---- MODULE Spec2Model ----
(***************************************************************************)
(* Model of the cocotb test bench tb/tb_cocotb.py of the dual-clock FIFO.  *)
(*                                                                         *)
(* One scenario (cocotb test) runs per behaviour.  The scenario body is a  *)
(* coroutine: it runs without interruption from one await to the next,     *)
(* and the clock tasks started by start_clock only run while the body is   *)
(* suspended.  Simulated time advances in half clock periods (Tick).       *)
(*                                                                         *)
(* The FIFO itself and the cocotbext driver classes are not part of the    *)
(* test bench source; they are modelled from the written specification     *)
(* (the Dut* and Driver* definitions).                                     *)
(***************************************************************************)
EXTENDS Integers, Sequences, FiniteSets, TLC

\* ------------------------------------------------------------ constants
\* range(255, -1, -1): first value of the stimulus loop.
RangeStart == 255
\* Clock(sig, 1, units="ns"): clock period in ns.
ClockPeriod == 1
\* A cocotb Clock toggles its signal twice per period.
TogglesPerPeriod == 2
\* await Timer(5, units="ns") of reset_dut.
ResetSettle == 5
\* await Timer(10, units="ns") of in_reset.
InResetWait == 10
\* await Timer(5, units="ns") of no_clock.
NoClockWait == 5
\* for x in range(0, 256) of random_bool: length of the list temp.
RandomBoolLen == 256

\* ------------------------------------------------------------ bounds
\* Largest FIFO_DEPTH parameter of the device explored.
MaxDepth == 2
\* random_bool: of the bits getrandbits returns, the first MaxRandomBits
\* are free and the later ones are FALSE.
MaxRandomBits == 3
\* Elements taken from the iterator random_bool returns.
MaxDraws == 520
\* The count of active edges seen during reset saturates here.
MaxEdgeCount == 12

\* Logic level of a signal nobody has driven yet.
X == 2

Clocks == {"wr_clk", "rd_clk", "data_count_clk"}
ResetLines == {"rd_rstn", "wr_rstn", "data_count_rstn"}

\* The signals the harness drives, and the tasks that write them: the
\* scenario body and the clock task of each clock.
Signals == Clocks \cup ResetLines
Body == "body"
ClockTask(c) ==
  CASE c = "wr_clk" -> "Clock(wr_clk)"
    [] c = "rd_clk" -> "Clock(rd_clk)"
    [] c = "data_count_clk" -> "Clock(data_count_clk)"
Writers == {Body} \cup {ClockTask(c) : c \in Clocks}
\* The reset line of each clock domain.
DomainReset(c) ==
  CASE c = "wr_clk" -> "wr_rstn"
    [] c = "rd_clk" -> "rd_rstn"
    [] OTHER -> "data_count_rstn"

Tests == {"single_word", "full_empty", "in_reset", "no_clock"}
\* Behaviours of the device: "none" obeys the specification, the others
\* break it in one way each (they exercise the failing assertions).
Faults == {"none", "order", "data", "status"}

\* The order in which reset_dut writes the three reset lines.
ResetOrder == <<"rd_rstn", "wr_rstn", "data_count_rstn">>

\* Timer(ns) in ticks (half clock periods).
Ticks(ns) == (ns * TogglesPerPeriod) \div ClockPeriod

MsgData == "Input data does not match output"
MsgEmpty == "Empty is 0, not empty in reset!"
NoReport == [none |-> TRUE]

VARIABLES
  test,       \* the scenario being run
  ran,        \* the scenarios run before it in this simulation, with outcomes
  pc,         \* position of the scenario body
  k,          \* index inside reset_dut and inside the assertion loop
  x,          \* loop variable of the stimulus loop
  round,      \* number of loop iterations begun
  timer,      \* ticks left of the Timer the body awaits
  clk,        \* level of each clock signal
  due,        \* clock tasks that have to run in the current time step
  started,    \* clock tasks started by start_clock
  rstn,       \* level of each reset line
  rd_empty,   \* the read-side empty flag of the device
  fifo,       \* words held by the device, oldest first
  depth,      \* FIFO_DEPTH parameter of the device
  fwft,       \* FWFT parameter of the device
  ack_ena,    \* ACK_ENA parameter of the device
  fifo_source,\* the write-side driver object
  fifo_sink,  \* the read-side driver object
  wr_pending, \* words of the current write call not yet accepted
  wr_phase,   \* 1 while a word waits for its acknowledge
  rd_need,    \* words the current read call still has to sample
  rd_phase,   \* 1 after the read pulse of a non-FWFT read
  rx_data,    \* values returned by the last read call
  rx_pos,     \* for each returned value, its position in the written sequence
  words,      \* words the read calls of the scenario have returned so far
  outcome,    \* "running", "passed" or "failed"
  report,     \* what a failed scenario raises
  rst_edges,  \* per reset line: active clock edges delivered while it was 0
  edges,      \* per clock: TRUE once its clock task has driven it
  fault,      \* behaviour of the device
  writers,    \* per signal: the tasks that have written it in this scenario
  rb_temp,    \* random_bool: the list temp
  rb_pos,     \* random_bool: 0 inside the loop, then the cycle's next index
  rb_seq      \* the elements taken from the iterator random_bool returned

vars == <<test, ran, pc, k, x, round, timer, clk, due, started, rstn, rd_empty,
          fifo, depth, fwft, ack_ena, fifo_source, fifo_sink, wr_pending,
          wr_phase, rd_need, rd_phase, rx_data, rx_pos, words, outcome, report,
          rst_edges, edges, fault, writers, rb_temp, rb_pos, rb_seq>>

rb == <<rb_temp, rb_pos, rb_seq>>
harness == <<test, ran, rb, pc, k, x, round, timer, outcome, report>>
signals == <<clk, due, started, rstn, writers>>
device == <<rd_empty, fifo, depth, fwft, ack_ena, fault, rst_edges, edges>>
drivers == <<fifo_source, fifo_sink, wr_pending, wr_phase, rd_need, rd_phase,
             rx_data, rx_pos, words>>

NoDriver == [made |-> FALSE]

Init ==
  /\ test \in Tests
  /\ ran = <<>>
  /\ pc = "start"
  /\ k = 0
  /\ x = RangeStart + 1
  /\ round = 0
  /\ timer = 0
  /\ clk = [c \in Clocks |-> X]
  /\ due = [c \in Clocks |-> FALSE]
  /\ started = {}
  /\ rstn = [r \in ResetLines |-> X]
  /\ writers = [s \in Signals |-> {}]
  /\ rb_temp = <<>>
  /\ rb_pos = 0
  /\ rb_seq = <<>>
  /\ rd_empty = X
  /\ fifo = <<>>
  /\ depth \in 1..MaxDepth
  /\ fwft \in BOOLEAN
  /\ ack_ena \in BOOLEAN
  /\ fifo_source = NoDriver
  /\ fifo_sink = NoDriver
  /\ wr_pending = <<>>
  /\ wr_phase = 0
  /\ rd_need = 0
  /\ rd_phase = 0
  /\ rx_data = <<>>
  /\ rx_pos = <<>>
  /\ words = 0
  /\ outcome = "running"
  /\ report = NoReport
  /\ rst_edges = [r \in ResetLines |-> 0]
  /\ edges = [c \in Clocks |-> FALSE]
  /\ fault \in Faults
  \* a device that breaks the specification is explored in one configuration
  /\ fault = "none" \/ (fwft /\ ~ack_ena /\ depth = MaxDepth)

\* ------------------------------------------------------------ helpers
Min(a, b) == IF a < b THEN a ELSE b

\* temp built one element short (range(FIFO_DEPTH - 1)).
TempShort(v, d) == [i \in 1..(d - 1) |-> v]

\* temp built one element too long (range(FIFO_DEPTH + 1)).
TempLong(v, d) == [i \in 1..(d + 1) |-> v]

\* The sequence temp built by full_empty: FIFO_DEPTH copies of v.
Temp(v, d) == [i \in 1..d |-> v]

\* s without its i-th element.
RemoveAt(s, i) == [j \in 1..(Len(s) - 1) |-> IF j < i THEN s[j] ELSE s[j + 1]]

\* The body is suspended in an await; only then do other tasks run.
Suspended == pc \in {"rst_wait", "write_wait", "read_wait", "edge_wait", "idle_wait"}

\* The body awaits a Timer.
TimerWait == pc \in {"rst_wait", "idle_wait"}

\* ------------------------------------------------------------ device
\* Value of rd_empty while rd_rstn is 0.
DutEmptyInReset == IF fault = "status" THEN 0 ELSE 1

\* Value of rd_empty registered at a read clock edge out of reset.
DutEmptyFlag(mem) == IF mem = <<>> THEN 1 ELSE 0

\* Positions of the stored words the device may hand out next.
DutPopChoices(mem) == IF fault = "order" THEN 1..Len(mem) ELSE {1}

\* Values the device may present for a stored word.
DutReadValues(w) == IF fault = "data" THEN {w.val, (w.val + 1) % (RangeStart + 1)} ELSE {w.val}

\* A reset line is written: the device reacts to an asserted reset at once.
DutOnReset(line, level) ==
  /\ rd_empty' = IF line = "rd_rstn" /\ level = 0 THEN DutEmptyInReset ELSE rd_empty
  /\ fifo' = IF line \in {"rd_rstn", "wr_rstn"} /\ level = 0 THEN <<>> ELSE fifo

\* dut.<line>.value = level
WriteReset(line, level) ==
  /\ rstn' = [rstn EXCEPT ![line] = level]
  /\ writers' = [writers EXCEPT ![line] = @ \cup {Body}]
  /\ DutOnReset(line, level)

\* A rising edge of clock c arrives while its reset line is 0.
CountResetEdge(c) ==
  rst_edges' = [rst_edges EXCEPT ![DomainReset(c)] = Min(@ + 1, MaxEdgeCount)]

\* ------------------------------------------------------------ harness
\* The failure is recorded but the scenario goes on with the next round.
FailAndContinue(msg) ==
  /\ outcome' = "failed"
  /\ report' = [message |-> msg]
  /\ pc' = "loop"

\* assert ..., msg fails: AssertionError(msg) ends the scenario.
Fail(msg) ==
  /\ outcome' = "failed"
  /\ report' = [message |-> msg]
  /\ pc' = "done"

\* start_clock starts the write and read clocks and forgets data_count_clk.
StartClockTwo ==
  /\ pc = "start"
  /\ test \in {"single_word", "full_empty", "in_reset"}
  /\ started' = {"wr_clk", "rd_clk"}
  /\ due' = [c \in Clocks |-> c \in {"wr_clk", "rd_clk"}]
  /\ pc' = IF test = "in_reset" THEN "ir_rd_rstn" ELSE "drivers"
  /\ UNCHANGED <<test, ran, rb, k, x, round, timer, outcome, report, clk, rstn, writers>>
  /\ UNCHANGED <<device, drivers>>

\* start_clock is followed by a write of 0 to rd_clk by the body, as in
\* no_clock.
StartClockForcesRdClk ==
  /\ pc = "start"
  /\ test \in {"single_word", "full_empty", "in_reset"}
  /\ started' = Clocks
  /\ due' = [c \in Clocks |-> TRUE]
  /\ clk' = [clk EXCEPT !["rd_clk"] = 0]
  /\ writers' = [writers EXCEPT !["rd_clk"] = @ \cup {Body}]
  /\ pc' = IF test = "in_reset" THEN "ir_rd_rstn" ELSE "drivers"
  /\ UNCHANGED <<test, ran, rb, k, x, round, timer, outcome, report, rstn>>
  /\ UNCHANGED <<device, drivers>>

\* start_clock(dut): three clock tasks are scheduled with start_soon; they
\* first run when the body suspends.
StartClock ==
  /\ pc = "start"
  /\ test \in {"single_word", "full_empty", "in_reset"}
  /\ started' = Clocks
  /\ due' = [c \in Clocks |-> TRUE]
  /\ pc' = IF test = "in_reset" THEN "ir_rd_rstn" ELSE "drivers"
  /\ UNCHANGED <<test, ran, rb, k, x, round, timer, outcome, report, clk, rstn, writers>>
  /\ UNCHANGED <<device, drivers>>

\* The scenario goes on to the stimulus without awaiting reset_dut.
MakeDriversSkipReset ==
  /\ pc = "drivers"
  /\ fifo_source' = [made |-> TRUE, name |-> "wr", clock |-> "wr_clk",
                     reset |-> "wr_rstn", fwft |-> fwft, ack_ena |-> ack_ena]
  /\ fifo_sink' = [made |-> TRUE, name |-> "rd", clock |-> "rd_clk",
                   reset |-> "rd_rstn", fwft |-> fwft]
  /\ pc' = "loop"
  /\ k' = 0
  /\ UNCHANGED <<test, ran, rb, x, round, timer, outcome, report>>
  /\ UNCHANGED <<signals, device>>
  /\ UNCHANGED <<wr_pending, wr_phase, rd_need, rd_phase, rx_data, rx_pos, words>>

\* fifo_source = xilinxFIFOsource(...); fifo_sink = xilinxFIFOsink(...)
MakeDrivers ==
  /\ pc = "drivers"
  /\ fifo_source' = [made |-> TRUE, name |-> "wr", clock |-> "wr_clk",
                     reset |-> "wr_rstn", fwft |-> fwft, ack_ena |-> ack_ena]
  /\ fifo_sink' = [made |-> TRUE, name |-> "rd", clock |-> "rd_clk",
                   reset |-> "rd_rstn", fwft |-> fwft]
  /\ pc' = "rst_lo"
  /\ k' = 1
  /\ UNCHANGED <<test, ran, rb, x, round, timer, outcome, report>>
  /\ UNCHANGED <<signals, device>>
  /\ UNCHANGED <<wr_pending, wr_phase, rd_need, rd_phase, rx_data, rx_pos, words>>

\* reset_dut: the three assignments of 0.
ResetDutLow ==
  /\ pc = "rst_lo"
  /\ WriteReset(ResetOrder[k], 0)
  /\ IF k = Len(ResetOrder)
       THEN pc' = "rst_timer" /\ k' = 0
       ELSE pc' = pc /\ k' = k + 1
  /\ UNCHANGED <<test, ran, rb, x, round, timer, outcome, report>>
  /\ UNCHANGED <<clk, due, started, depth, fwft, ack_ena, fault, rst_edges, edges>>
  /\ UNCHANGED drivers

\* reset_dut does not wait between asserting and releasing (Timer of 0).
ResetDutTimerNoWait ==
  /\ pc = "rst_timer"
  /\ timer' = 0
  /\ pc' = "rst_wait"
  /\ UNCHANGED <<test, ran, rb, k, x, round, outcome, report>>
  /\ UNCHANGED <<signals, device, drivers>>

\* reset_dut: await Timer(5, units="ns") is reached.
ResetDutTimer ==
  /\ pc = "rst_timer"
  /\ timer' = Ticks(ResetSettle)
  /\ pc' = "rst_wait"
  /\ UNCHANGED <<test, ran, rb, k, x, round, outcome, report>>
  /\ UNCHANGED <<signals, device, drivers>>

\* reset_dut: the Timer has fired.
ResetDutResume ==
  /\ pc = "rst_wait"
  /\ timer = 0
  /\ pc' = "rst_hi"
  /\ k' = 1
  /\ UNCHANGED <<test, ran, rb, x, round, timer, outcome, report>>
  /\ UNCHANGED <<signals, device, drivers>>

\* reset_dut: the three assignments of 1.
ResetDutHigh ==
  /\ pc = "rst_hi"
  /\ WriteReset(ResetOrder[k], 1)
  /\ IF k = Len(ResetOrder)
       THEN pc' = "loop" /\ k' = 0
       ELSE pc' = pc /\ k' = k + 1
  /\ UNCHANGED <<test, ran, rb, x, round, timer, outcome, report>>
  /\ UNCHANGED <<clk, due, started, depth, fwft, ack_ena, fault, rst_edges, edges>>
  /\ UNCHANGED drivers

\* Every round starts with another reset_dut.
LoopNextResets ==
  /\ pc = "loop"
  /\ LET next == IF round = 0 THEN RangeStart ELSE x - 1
     IN IF next > -1
          THEN /\ x' = next
               /\ round' = round + 1
               /\ pc' = IF round = 0 THEN "write_call" ELSE "rst_lo"
               /\ k' = 1
               /\ UNCHANGED outcome
          ELSE /\ pc' = "done"
               /\ outcome' = "passed"
               /\ UNCHANGED <<x, round, k>>
  /\ UNCHANGED <<test, ran, rb, timer, report>>
  /\ UNCHANGED <<signals, device, drivers>>

\* The loop stops before the value 0: range(255, 0, -1).
LoopNextStopsAtOne ==
  /\ pc = "loop"
  /\ LET next == IF round = 0 THEN RangeStart ELSE x - 1
     IN IF next > 0
          THEN /\ x' = next
               /\ round' = round + 1
               /\ pc' = "write_call"
               /\ UNCHANGED outcome
          ELSE /\ pc' = "done"
               /\ outcome' = "passed"
               /\ UNCHANGED <<x, round>>
  /\ UNCHANGED <<test, ran, rb, k, timer, report>>
  /\ UNCHANGED <<signals, device, drivers>>

\* for x in range(255, -1, -1): the next value, or the end of the scenario.
LoopNext ==
  /\ pc = "loop"
  /\ LET next == IF round = 0 THEN RangeStart ELSE x - 1
     IN IF next > -1
          THEN /\ x' = next
               /\ round' = round + 1
               /\ pc' = "write_call"
               /\ UNCHANGED outcome
          ELSE /\ pc' = "done"
               /\ outcome' = "passed"
               /\ UNCHANGED <<x, round>>
  /\ UNCHANGED <<test, ran, rb, k, timer, report>>
  /\ UNCHANGED <<signals, device, drivers>>

\* What the scenario writes, and expects to read, in the current round.
Stimulus == IF test = "single_word" THEN <<x>> ELSE Temp(x, depth)

\* The write call passes the wrong value (x + 1 instead of x).
WriteCallWrongValue ==
  /\ pc = "write_call"
  /\ wr_pending' = [i \in 1..Len(Stimulus) |-> (x + 1) % (RangeStart + 1)]
  /\ wr_phase' = 0
  /\ pc' = "write_wait"
  /\ UNCHANGED <<test, ran, rb, k, x, round, timer, outcome, report>>
  /\ UNCHANGED <<signals, device>>
  /\ UNCHANGED <<fifo_source, fifo_sink, rd_need, rd_phase, rx_data, rx_pos, words>>

\* The write call is started but not awaited: the body goes on to the read
\* call while the words are still pending.
WriteCallNotAwaited ==
  /\ pc = "write_call"
  /\ wr_pending' = Stimulus
  /\ wr_phase' = 0
  /\ pc' = "read_call"
  /\ UNCHANGED <<test, ran, rb, k, x, round, timer, outcome, report>>
  /\ UNCHANGED <<signals, device>>
  /\ UNCHANGED <<fifo_source, fifo_sink, rd_need, rd_phase, rx_data, rx_pos, words>>

\* The write call takes its value from a coin toss: the round's value or 0.
WriteCallRandom ==
  /\ pc = "write_call"
  /\ \E b \in BOOLEAN :
       wr_pending' = IF b THEN Stimulus ELSE [i \in 1..Len(Stimulus) |-> 0]
  /\ wr_phase' = 0
  /\ pc' = "write_wait"
  /\ UNCHANGED <<test, ran, rb, k, x, round, timer, outcome, report>>
  /\ UNCHANGED <<signals, device>>
  /\ UNCHANGED <<fifo_source, fifo_sink, rd_need, rd_phase, rx_data, rx_pos, words>>

\* await fifo_source.write(x) / await fifo_source.write(temp): the call.
WriteCall ==
  /\ pc = "write_call"
  /\ wr_pending' = Stimulus
  /\ wr_phase' = 0
  /\ pc' = "write_wait"
  /\ UNCHANGED <<test, ran, rb, k, x, round, timer, outcome, report>>
  /\ UNCHANGED <<signals, device>>
  /\ UNCHANGED <<fifo_source, fifo_sink, rd_need, rd_phase, rx_data, rx_pos, words>>

\* rx_data = await fifo_sink.read(x) / read(temp): the call.
ReadCall ==
  /\ pc = "read_call"
  /\ rd_need' = Len(Stimulus)
  /\ rd_phase' = 0
  /\ rx_data' = <<>>
  /\ rx_pos' = <<>>
  /\ pc' = "read_wait"
  /\ UNCHANGED words
  /\ UNCHANGED <<test, ran, rb, k, x, round, timer, outcome, report>>
  /\ UNCHANGED <<signals, device>>
  /\ UNCHANGED <<fifo_source, fifo_sink, wr_pending, wr_phase>>

\* single_word: assert rx_data == x, "Input data does not match output"
AssertSingle ==
  /\ pc = "assert"
  /\ test = "single_word"
  /\ IF rx_data[1] = x
       THEN pc' = "loop" /\ UNCHANGED <<outcome, report>>
       ELSE Fail(MsgData)
  /\ UNCHANGED <<test, ran, rb, k, x, round, timer>>
  /\ UNCHANGED <<signals, device, drivers>>

\* Only the first element read is compared (assert rx_data[0] == x).
AssertEachFirstOnly ==
  /\ pc = "assert"
  /\ test = "full_empty"
  /\ IF rx_data[1] = x
       THEN pc' = "edge_wait" /\ k' = 0 /\ UNCHANGED <<outcome, report>>
       ELSE Fail(MsgData) /\ UNCHANGED k
  /\ UNCHANGED <<test, ran, rb, x, round, timer>>
  /\ UNCHANGED <<signals, device, drivers>>

\* full_empty: for y in rx_data: assert y == x, "Input data does not match output"
AssertEach ==
  /\ pc = "assert"
  /\ test = "full_empty"
  /\ IF rx_data[k] = x
       THEN /\ IF k = Len(rx_data)
                 THEN pc' = "edge_wait" /\ k' = 0
                 ELSE pc' = pc /\ k' = k + 1
            /\ UNCHANGED <<outcome, report>>
       ELSE Fail(MsgData) /\ UNCHANGED k
  /\ UNCHANGED <<test, ran, rb, x, round, timer>>
  /\ UNCHANGED <<signals, device, drivers>>

\* in_reset releases rd_rstn instead of asserting it (value = 1).
InResetRdReleased ==
  /\ pc = "ir_rd_rstn"
  /\ WriteReset("rd_rstn", 1)
  /\ pc' = "ir_wr_rstn"
  /\ UNCHANGED <<test, ran, rb, k, x, round, timer, outcome, report>>
  /\ UNCHANGED <<clk, due, started, depth, fwft, ack_ena, fault, rst_edges, edges>>
  /\ UNCHANGED drivers

\* in_reset does not write rd_rstn: the line keeps the level it has.
InResetRdSkipped ==
  /\ pc = "ir_rd_rstn"
  /\ pc' = "ir_wr_rstn"
  /\ UNCHANGED <<test, ran, rb, k, x, round, timer, outcome, report>>
  /\ UNCHANGED <<signals, device, drivers>>

\* in_reset: dut.rd_rstn.value = 0
InResetRd ==
  /\ pc = "ir_rd_rstn"
  /\ WriteReset("rd_rstn", 0)
  /\ pc' = "ir_wr_rstn"
  /\ UNCHANGED <<test, ran, rb, k, x, round, timer, outcome, report>>
  /\ UNCHANGED <<clk, due, started, depth, fwft, ack_ena, fault, rst_edges, edges>>
  /\ UNCHANGED drivers

\* in_reset does not write wr_rstn before it waits.
InResetWrSkipped ==
  /\ pc = "ir_wr_rstn"
  /\ pc' = "ir_timer"
  /\ UNCHANGED <<test, ran, rb, k, x, round, timer, outcome, report>>
  /\ UNCHANGED <<signals, device, drivers>>

\* in_reset: dut.wr_rstn.value = 0
InResetWr ==
  /\ pc = "ir_wr_rstn"
  /\ WriteReset("wr_rstn", 0)
  /\ pc' = "ir_timer"
  /\ UNCHANGED <<test, ran, rb, k, x, round, timer, outcome, report>>
  /\ UNCHANGED <<clk, due, started, depth, fwft, ack_ena, fault, rst_edges, edges>>
  /\ UNCHANGED drivers

\* in_reset waits 1 ns instead of 10.
InResetTimerShort ==
  /\ pc = "ir_timer"
  /\ timer' = Ticks(1)
  /\ pc' = "idle_wait"
  /\ UNCHANGED <<test, ran, rb, k, x, round, outcome, report>>
  /\ UNCHANGED <<signals, device, drivers>>

\* in_reset: await Timer(10, units="ns") is reached.
InResetTimer ==
  /\ pc = "ir_timer"
  /\ timer' = Ticks(InResetWait)
  /\ pc' = "idle_wait"
  /\ UNCHANGED <<test, ran, rb, k, x, round, outcome, report>>
  /\ UNCHANGED <<signals, device, drivers>>

\* The writes of no_clock, in program order.
NoClockWrites == <<"rd_rstn", "rd_clk", "wr_rstn", "rd_clk">>

\* no_clock begins with start_clock(dut) like the other scenarios.
NoClockWriteStartsClock ==
  /\ test = "no_clock"
  /\ pc \in {"start", "nc_write"}
  /\ LET sig == NoClockWrites[k + 1]
     IN /\ IF sig \in ResetLines
             THEN WriteReset(sig, 0) /\ UNCHANGED clk
             ELSE /\ clk' = [clk EXCEPT ![sig] = 0]
                  /\ writers' = [writers EXCEPT ![sig] = @ \cup {Body}]
                  /\ UNCHANGED <<rstn, rd_empty, fifo>>
        /\ k' = k + 1
        /\ pc' = IF k + 1 = Len(NoClockWrites) THEN "nc_timer" ELSE "nc_write"
  /\ IF pc = "start"
       THEN started' = Clocks /\ due' = [c \in Clocks |-> TRUE]
       ELSE UNCHANGED <<started, due>>
  /\ UNCHANGED <<test, ran, rb, x, round, timer, outcome, report>>
  /\ UNCHANGED <<depth, fwft, ack_ena, fault, rst_edges, edges>>
  /\ UNCHANGED drivers

\* no_clock: the four assignments of 0 (two of them to rd_clk).
NoClockWrite ==
  /\ test = "no_clock"
  /\ pc \in {"start", "nc_write"}
  /\ LET sig == NoClockWrites[k + 1]
     IN /\ IF sig \in ResetLines
             THEN WriteReset(sig, 0) /\ UNCHANGED clk
             ELSE /\ clk' = [clk EXCEPT ![sig] = 0]
                  /\ writers' = [writers EXCEPT ![sig] = @ \cup {Body}]
                  /\ UNCHANGED <<rstn, rd_empty, fifo>>
        /\ k' = k + 1
        /\ pc' = IF k + 1 = Len(NoClockWrites) THEN "nc_timer" ELSE "nc_write"
  /\ UNCHANGED <<test, ran, rb, x, round, timer, outcome, report>>
  /\ UNCHANGED <<due, started, depth, fwft, ack_ena, fault, rst_edges, edges>>
  /\ UNCHANGED drivers

\* no_clock: await Timer(5, units="ns") is reached.
NoClockTimer ==
  /\ pc = "nc_timer"
  /\ timer' = Ticks(NoClockWait)
  /\ pc' = "idle_wait"
  /\ UNCHANGED <<test, ran, rb, k, x, round, outcome, report>>
  /\ UNCHANGED <<signals, device, drivers>>

\* in_reset, no_clock: the Timer has fired.
IdleResume ==
  /\ pc = "idle_wait"
  /\ timer = 0
  /\ pc' = "check_empty"
  /\ UNCHANGED <<test, ran, rb, k, x, round, timer, outcome, report>>
  /\ UNCHANGED <<signals, device, drivers>>

\* The status check fails with the message of the data checks.
AssertEmptyWrongMessage ==
  /\ pc = "check_empty"
  /\ IF rd_empty = 1
       THEN pc' = "done" /\ outcome' = "passed" /\ UNCHANGED report
       ELSE Fail(MsgData)
  /\ UNCHANGED <<test, ran, rb, k, x, round, timer>>
  /\ UNCHANGED <<signals, device, drivers>>

\* assert dut.rd_empty.value.integer == 1, "Empty is 0, not empty in reset!"
AssertEmpty ==
  /\ pc = "check_empty"
  /\ IF rd_empty = 1
       THEN pc' = "done" /\ outcome' = "passed" /\ UNCHANGED report
       ELSE Fail(MsgEmpty)
  /\ UNCHANGED <<test, ran, rb, k, x, round, timer>>
  /\ UNCHANGED <<signals, device, drivers>>

\* ------------------------------------------------------------ scheduler
\* Simulated time advances by half a clock period: every clock task is due
\* again and a running Timer comes one tick closer.
Tick ==
  /\ outcome = "running"
  /\ Suspended
  /\ \A c \in Clocks : ~due[c]
  /\ ~(TimerWait /\ timer = 0)
  /\ due' = [c \in Clocks |-> c \in started]
  /\ timer' = IF timer > 0 THEN timer - 1 ELSE 0
  /\ UNCHANGED <<test, ran, rb, pc, k, x, round, outcome, report>>
  /\ UNCHANGED <<clk, started, rstn, writers>>
  /\ UNCHANGED <<device, drivers>>

\* The level a clock task drives next: high first, then alternating.
NextLevel(c) == IF ~edges[c] THEN 1 ELSE IF clk[c] = 1 THEN 0 ELSE 1

\* The next run of the clock task of c gives the device a rising edge.
Rises(c) == NextLevel(c) = 1 /\ clk[c] # 1

\* The order in which start_clock schedules the clock tasks.
StartOrder == <<"wr_clk", "rd_clk", "data_count_clk">>

\* The clocks scheduled before c.
Earlier(c) == {StartOrder[i] : i \in {j \in 1..Len(StartOrder) : \E m \in (j + 1)..Len(StartOrder) : StartOrder[m] = c}}

\* A clock task may run: the body is suspended, the task is due, and the
\* tasks scheduled before it have run in this time step.
ClockRuns(c) ==
  /\ outcome = "running"
  /\ Suspended
  /\ c \in started
  /\ due[c]
  /\ \A e \in Earlier(c) : ~due[e]

\* The clock task of c toggles the signal.
Toggle(c) ==
  /\ clk' = [clk EXCEPT ![c] = NextLevel(c)]
  /\ due' = [due EXCEPT ![c] = FALSE]
  /\ writers' = [writers EXCEPT ![c] = @ \cup {ClockTask(c)}]
  /\ edges' = [edges EXCEPT ![c] = TRUE]

\* Position, in the sequence being written, of the word accepted next.
WritePos == Len(Stimulus) - Len(wr_pending) + 1

\* Write-side driver at a rising wr_clk edge out of reset, inside write():
\* nothing is accepted (the handshake is not ready), the word is presented
\* and waits for its acknowledge (ACK_ENA), or the word is accepted.
DriverWriteEdge ==
  \/ UNCHANGED <<pc, wr_pending, wr_phase, fifo>>
  \/ /\ wr_pending # <<>>
     /\ ack_ena /\ wr_phase = 0
     /\ wr_phase' = 1
     /\ UNCHANGED <<pc, wr_pending, fifo>>
  \/ /\ wr_pending # <<>>
     /\ ~ack_ena \/ wr_phase = 1
     /\ Len(fifo) < depth
     /\ fifo' = Append(fifo, [val |-> Head(wr_pending), pos |-> WritePos])
     /\ wr_pending' = Tail(wr_pending)
     /\ wr_phase' = 0
     /\ pc' = IF Tail(wr_pending) = <<>> THEN "read_call" ELSE pc

\* wr_clk toggles; on a rising edge the write side of the device and the
\* write driver act.
WrClkToggle ==
  /\ ClockRuns("wr_clk")
  /\ Toggle("wr_clk")
  /\ IF Rises("wr_clk") /\ rstn["wr_rstn"] = 0
       THEN /\ CountResetEdge("wr_clk")
            /\ fifo' = <<>>
            /\ UNCHANGED <<pc, wr_pending, wr_phase>>
       ELSE /\ UNCHANGED rst_edges
            /\ IF Rises("wr_clk") /\ rstn["wr_rstn"] = 1 /\ pc = "write_wait"
                 THEN DriverWriteEdge
                 ELSE UNCHANGED <<pc, wr_pending, wr_phase, fifo>>
  /\ UNCHANGED <<test, ran, rb, k, x, round, timer, outcome, report>>
  /\ UNCHANGED <<started, rstn, rd_empty, depth, fwft, ack_ena, fault>>
  /\ UNCHANGED <<fifo_source, fifo_sink, rd_need, rd_phase, rx_data, rx_pos, words>>

\* Read-side driver at a rising rd_clk edge out of reset, inside read():
\* nothing is sampled, the read pulse is given (no FWFT), or a word is
\* sampled and leaves the device.
DriverReadEdge ==
  \/ /\ rd_empty' = DutEmptyFlag(fifo)
     /\ UNCHANGED <<pc, k, rd_need, rd_phase, rx_data, rx_pos, words, fifo>>
  \/ /\ rd_empty = 0 /\ fifo # <<>>
     /\ ~fwft /\ rd_phase = 0
     /\ rd_phase' = 1
     /\ rd_empty' = DutEmptyFlag(fifo)
     /\ UNCHANGED <<pc, k, rd_need, rx_data, rx_pos, words, fifo>>
  \/ /\ rd_empty = 0 /\ fifo # <<>>
     /\ fwft \/ rd_phase = 1
     /\ \E i \in DutPopChoices(fifo) : \E v \in DutReadValues(fifo[i]) :
          /\ rx_data' = Append(rx_data, v)
          /\ rx_pos' = Append(rx_pos, fifo[i].pos)
          /\ words' = words + 1
          /\ fifo' = RemoveAt(fifo, i)
     /\ rd_empty' = DutEmptyFlag(fifo')
     /\ rd_need' = rd_need - 1
     /\ rd_phase' = 0
     /\ IF rd_need = 1
          THEN pc' = "assert" /\ k' = 1
          ELSE UNCHANGED <<pc, k>>

\* rd_clk toggles; on a rising edge the read side of the device and the
\* read driver act, and an awaited RisingEdge(dut.rd_clk) fires.
RdClkToggle ==
  /\ ClockRuns("rd_clk")
  /\ Toggle("rd_clk")
  /\ IF Rises("rd_clk") /\ rstn["rd_rstn"] = 0
       THEN /\ CountResetEdge("rd_clk")
            /\ rd_empty' = DutEmptyInReset
            /\ UNCHANGED <<pc, k, rd_need, rd_phase, rx_data, rx_pos, words, fifo>>
       ELSE /\ UNCHANGED rst_edges
            /\ IF Rises("rd_clk") /\ rstn["rd_rstn"] = 1
                 THEN IF pc = "read_wait"
                        THEN DriverReadEdge
                        ELSE /\ rd_empty' = DutEmptyFlag(fifo)
                             /\ pc' = IF pc = "edge_wait" THEN "loop" ELSE pc
                             /\ UNCHANGED <<k, rd_need, rd_phase, rx_data, rx_pos, words, fifo>>
                 ELSE UNCHANGED <<pc, k, rd_need, rd_phase, rx_data, rx_pos, words, fifo, rd_empty>>
  /\ UNCHANGED <<test, ran, rb, x, round, timer, outcome, report>>
  /\ UNCHANGED <<started, rstn, depth, fwft, ack_ena, fault>>
  /\ UNCHANGED <<fifo_source, fifo_sink, wr_pending, wr_phase>>

\* data_count_clk toggles.
DataCountClkToggle ==
  /\ ClockRuns("data_count_clk")
  /\ Toggle("data_count_clk")
  /\ IF Rises("data_count_clk") /\ rstn["data_count_rstn"] = 0
       THEN CountResetEdge("data_count_clk")
       ELSE UNCHANGED rst_edges
  /\ UNCHANGED harness
  /\ UNCHANGED <<started, rstn, rd_empty, fifo, depth, fwft, ack_ena, fault>>
  /\ UNCHANGED drivers

Next ==
  \/ StartClock
  \/ MakeDrivers
  \/ ResetDutLow
  \/ ResetDutTimer
  \/ ResetDutResume
  \/ ResetDutHigh
  \/ LoopNext
  \/ WriteCall
  \/ ReadCall
  \/ AssertSingle
  \/ AssertEach
  \/ InResetRd
  \/ InResetWr
  \/ InResetTimer
  \/ NoClockWrite
  \/ NoClockTimer
  \/ IdleResume
  \/ AssertEmpty
  \/ Tick
  \/ WrClkToggle
  \/ RdClkToggle
  \/ DataCountClkToggle

Spec == Init /\ [][Next]_vars

\* ------------------------------------------------------------ suite
\* The scenarios in the order the module registers them with cocotb.
TestOrder == <<"single_word", "full_empty", "in_reset", "no_clock">>

\* The scenarios registered after t.
LaterTests(t) ==
  {TestOrder[j] : j \in {m \in 1..Len(TestOrder) :
                            \E i \in 1..(m - 1) : TestOrder[i] = t}}

\* The scenario has ended and a later one of the module is run in the same
\* simulation: the coroutine's locals and driver objects are gone and its
\* clock tasks are killed; the signals and the device keep what they hold.
NextTest ==
  /\ pc = "done"
  /\ \E t \in LaterTests(test) : test' = t
  /\ ran' = Append(ran, [test |-> test, outcome |-> outcome])
  /\ pc' = "start"
  /\ k' = 0
  /\ x' = RangeStart + 1
  /\ round' = 0
  /\ timer' = 0
  /\ outcome' = "running"
  /\ report' = NoReport
  /\ started' = {}
  /\ due' = [c \in Clocks |-> FALSE]
  /\ edges' = [c \in Clocks |-> FALSE]
  /\ writers' = [s \in Signals |-> {}]
  /\ rst_edges' = [r \in ResetLines |-> 0]
  /\ fifo_source' = NoDriver
  /\ fifo_sink' = NoDriver
  /\ wr_pending' = <<>>
  /\ wr_phase' = 0
  /\ rd_need' = 0
  /\ rd_phase' = 0
  /\ rx_data' = <<>>
  /\ rx_pos' = <<>>
  /\ words' = 0
  /\ UNCHANGED <<clk, rstn, rd_empty, fifo, depth, fwft, ack_ena, fault, rb>>

SuiteNext == Next \/ NextTest

\* A simulation that runs one scenario or several, in registration order.
SuiteSpec == Init /\ [][SuiteNext]_vars

\* ------------------------------------------------------------ helper
\* Everything but the state of random_bool.
scenario == <<test, ran, pc, k, x, round, timer, outcome, report,
              signals, device, drivers>>

\* bool(random.getrandbits(1)) for the element after n elements.
RandomBits(n) == IF n < MaxRandomBits THEN BOOLEAN ELSE {FALSE}

\* random_bool with a loop one short: range(0, 255).
RandomBoolShort ==
  /\ rb_pos = 0
  /\ IF Len(rb_temp) < RandomBoolLen - 1
       THEN /\ \E b \in RandomBits(Len(rb_temp)) : rb_temp' = Append(rb_temp, b)
            /\ UNCHANGED rb_pos
       ELSE /\ rb_pos' = 1
            /\ UNCHANGED rb_temp
  /\ UNCHANGED <<rb_seq, scenario>>

\* random_bool(): the loop appends one random boolean per iteration; after
\* the last one the function returns itertools.cycle(temp).
RandomBool ==
  /\ rb_pos = 0
  /\ IF Len(rb_temp) < RandomBoolLen
       THEN /\ \E b \in RandomBits(Len(rb_temp)) : rb_temp' = Append(rb_temp, b)
            /\ UNCHANGED rb_pos
       ELSE /\ rb_pos' = 1
            /\ UNCHANGED rb_temp
  /\ UNCHANGED <<rb_seq, scenario>>

\* next() on the iterator: the element at the cycle's index, which then
\* moves on and wraps at the end of the list.
CycleNext ==
  /\ rb_pos > 0
  /\ Len(rb_seq) < MaxDraws
  /\ rb_seq' = Append(rb_seq, rb_temp[rb_pos])
  /\ rb_pos' = IF rb_pos = Len(rb_temp) THEN 1 ELSE rb_pos + 1
  /\ UNCHANGED <<rb_temp, scenario>>

HelperNext == RandomBool \/ CycleNext

\* random_bool called on its own, with no scenario running.
HelperInit ==
  /\ Init
  /\ test = "no_clock" /\ depth = 1 /\ fwft /\ ack_ena /\ fault = "none"

HelperSpec == HelperInit /\ [][HelperNext]_vars

\* ------------------------------------------------------------ fairness
\* A rising wr_clk edge at which the write call gets on, and a rising
\* rd_clk edge at which the read call gets on.
WrProgress == WrClkToggle /\ (wr_pending' # wr_pending \/ wr_phase' # wr_phase)
RdProgress == RdClkToggle /\ (rd_need' # rd_need \/ rd_phase' # rd_phase)

\* Runs against a conforming device, in the handshake mode that uses every
\* branch of the drivers (acknowledged writes, read pulse before the data).
FairInit == Init /\ fault = "none" /\ ~fwft /\ ack_ena

\* The simulator keeps running whatever can run, and a driver call that can
\* get on again and again does get on: every driver call completes.
FairSpec ==
  /\ FairInit /\ [][Next]_vars
  /\ WF_vars(Next)
  /\ SF_vars(WrProgress) /\ SF_vars(RdProgress)

TypeOK ==
  /\ test \in Tests
  /\ x \in 0..(RangeStart + 1)
  /\ round \in 0..(RangeStart + 1)
  /\ timer \in 0..Ticks(InResetWait)
  /\ Len(fifo) <= depth
  /\ outcome \in {"running", "passed", "failed"}
  /\ writers \in [Signals -> SUBSET Writers]
  /\ words \in 0..((RangeStart + 1) * MaxDepth)

\* ------------------------------------------------------------ claims
\* The device obeys the specification.
Conforming == fault = "none"

\* C1: in single_word, with a conforming device, the values visited are
\* 255 down to 0, the single read of every round returns exactly the value
\* written in that round, so no assertion fails and the scenario passes
\* after the round of value 0.
C1_SingleWord ==
  (test = "single_word" /\ Conforming) =>
    /\ round > 0 => x = RangeStart + 1 - round
    /\ pc = "assert" => rx_data = <<x>>
    /\ outcome # "failed"
    /\ pc = "done" => (round = RangeStart + 1 /\ x = 0 /\ outcome = "passed")

C1_Witness ==
  test = "single_word" /\ Conforming /\ pc = "done" /\ rx_data = <<0>> /\ round = RangeStart + 1

\* C2: in full_empty, with a conforming device of any depth, the write of
\* a round leaves the FIFO full with depth copies of the round's value, the
\* read returns depth copies of it in order, and no assertion of any round
\* fails.
C2_FullEmpty ==
  (test = "full_empty" /\ Conforming) =>
    /\ pc = "read_call" => fifo = [i \in 1..depth |-> [val |-> x, pos |-> i]]
    /\ pc = "assert" => (rx_data = [i \in 1..depth |-> x] /\ fifo = <<>>)
    /\ outcome # "failed"
    /\ pc = "done" => (round = RangeStart + 1 /\ x = 0 /\ outcome = "passed")

C2_Witness ==
  /\ test = "full_empty" /\ Conforming /\ depth = MaxDepth
  /\ pc = "assert" /\ k = depth /\ x = 7 /\ rx_data = [i \in 1..depth |-> 7]

\* The positions 1, 2, ..., n: the order in which n words were written.
InOrder(n) == [i \in 1..n |-> i]

\* C3 as stated: in full_empty the values read equal the values written in
\* the same order, and whenever the words come out in another order than
\* they went in, an assertion of the scenario fails.
C3_Original ==
  test = "full_empty" =>
    /\ (Conforming /\ pc = "assert") =>
         (rx_data = Temp(x, depth) /\ rx_pos = InOrder(depth))
    /\ (pc = "edge_wait" /\ rx_pos # InOrder(depth)) => outcome = "failed"

\* C3 as amended: in full_empty, with a device that keeps FIFO order, the
\* words are read in the order written and with the values written; with
\* any device, the assertions of a round pass only if every value read
\* equals the round's value.  (A round whose words come out in another
\* order still passes: its depth words are equal.)
C3_Ordering ==
  test = "full_empty" =>
    /\ (Conforming /\ pc \in {"read_wait", "assert"}) => rx_pos = InOrder(Len(rx_pos))
    /\ (Conforming /\ pc = "assert") =>
         (rx_data = Temp(x, depth) /\ rx_pos = InOrder(depth))
    /\ pc = "assert" => \A i \in 1..(k - 1) : rx_data[i] = x
    /\ pc = "edge_wait" => rx_data = Temp(x, depth)

C3_Witness ==
  /\ test = "full_empty" /\ fault = "order"
  /\ pc = "edge_wait" /\ rx_pos # InOrder(depth) /\ rx_data = Temp(x, depth)

\* C4: in in_reset, whenever rd_rstn and wr_rstn are both 0 a conforming
\* device shows rd_empty = 1, whatever clock edges have arrived; at the
\* check both lines are still 0, the 10 ns wait is over with a clock edge
\* delivered in each ns of it, rd_empty is 1 and the scenario passes.
C4_InReset ==
  test = "in_reset" =>
    /\ (Conforming /\ rstn["rd_rstn"] = 0 /\ rstn["wr_rstn"] = 0) => rd_empty = 1
    /\ pc = "check_empty" =>
         /\ rstn["rd_rstn"] = 0 /\ rstn["wr_rstn"] = 0
         /\ timer = 0
         /\ rst_edges["rd_rstn"] >= InResetWait
         /\ rst_edges["wr_rstn"] >= InResetWait
         /\ Conforming => rd_empty = 1
    /\ (Conforming /\ pc = "done") => outcome = "passed"

C4_Witness ==
  /\ test = "in_reset" /\ Conforming /\ pc = "done" /\ outcome = "passed"
  /\ rstn["rd_rstn"] = 0 /\ rstn["wr_rstn"] = 0 /\ rd_empty = 1
  /\ rst_edges["rd_rstn"] > InResetWait

\* C5: in no_clock no clock task is ever started and no clock task ever
\* toggles a clock; rd_clk is 0 from its first assignment on, wr_clk and
\* data_count_clk are never driven; rd_rstn and wr_rstn are 0 from their
\* assignment on; after the 5 ns wait a conforming device shows
\* rd_empty = 1 and the scenario passes.
C5_NoClock ==
  test = "no_clock" =>
    /\ started = {}
    /\ \A c \in Clocks : ~edges[c] /\ ~due[c]
    /\ clk["wr_clk"] = X /\ clk["data_count_clk"] = X
    /\ clk["rd_clk"] = IF k >= 2 THEN 0 ELSE X
    /\ rstn["rd_rstn"] = IF k >= 1 THEN 0 ELSE X
    /\ rstn["wr_rstn"] = IF k >= 3 THEN 0 ELSE X
    /\ rstn["data_count_rstn"] = X
    /\ pc \in {"nc_timer", "idle_wait", "check_empty", "done"} => k = Len(NoClockWrites)
    /\ pc = "check_empty" => (timer = 0 /\ (Conforming => rd_empty = 1))
    /\ (Conforming /\ pc = "done") => outcome = "passed"

C5_Witness ==
  /\ test = "no_clock" /\ Conforming /\ pc = "done" /\ outcome = "passed"
  /\ clk["rd_clk"] = 0 /\ rd_empty = 1

\* The part of the state reset_dut must leave alone.
OutsideReset == <<test, x, round, outcome, report, clk, due, started, drivers,
                  rst_edges, edges, depth, fwft, ack_ena, fault>>

\* The reset lines while reset_dut runs: written one by one in ResetOrder.
ResetProgress ==
  /\ pc = "rst_lo" =>
       \A i \in 1..Len(ResetOrder) : rstn[ResetOrder[i]] = IF i < k THEN 0 ELSE X
  /\ pc \in {"rst_timer", "rst_wait"} => \A r \in ResetLines : rstn[r] = 0
  /\ pc = "rst_hi" =>
       /\ \A i \in 1..Len(ResetOrder) : rstn[ResetOrder[i]] = IF i < k THEN 1 ELSE 0
       /\ timer = 0
       /\ \A r \in ResetLines : rst_edges[r] >= 2
  /\ (pc = "loop" /\ round = 0) =>
       /\ \A r \in ResetLines : rstn[r] = 1
       /\ \A r \in ResetLines : rst_edges[r] >= 2

\* The steps of reset_dut: each writes the next line of ResetOrder and
\* nothing else; the wait in between changes no reset line.
ResetSteps ==
  /\ pc = "rst_lo" =>
       (rstn' = [rstn EXCEPT ![ResetOrder[k]] = 0] /\ timer' = timer /\ UNCHANGED OutsideReset)
  /\ pc = "rst_timer" =>
       (timer' = Ticks(ResetSettle) /\ pc' = "rst_wait" /\ UNCHANGED rstn /\ UNCHANGED OutsideReset)
  /\ pc = "rst_wait" => (UNCHANGED rstn /\ pc' \in {"rst_wait", "rst_hi"})
  /\ pc = "rst_hi" =>
       (rstn' = [rstn EXCEPT ![ResetOrder[k]] = 1] /\ timer' = timer /\ UNCHANGED OutsideReset)

\* C6: reset_dut writes 0 to rd_rstn, wr_rstn, data_count_rstn in this
\* order, waits once for the settle time, then writes 1 to them in the
\* same order, and changes nothing else; when a line is released its
\* clock has delivered at least two active edges (a full period) while
\* the line was 0.
C6_ResetDut == []ResetProgress /\ [][ResetSteps]_vars

C6_Witness ==
  /\ pc = "rst_hi" /\ k = Len(ResetOrder)
  /\ rstn = [r \in ResetLines |-> IF r = "data_count_rstn" THEN 0 ELSE 1]
  /\ \A r \in ResetLines : rst_edges[r] >= ResetSettle

\* The positions of the body from the first driver call of a scenario on.
StimulusPcs == {"write_call", "write_wait", "read_call", "read_wait", "assert", "edge_wait"}

\* C7: in single_word and full_empty, at the first write call and at every
\* later write or read, the three reset lines are 1, the three clock tasks
\* have been started and each has driven its clock.
C7_ResetBeforeStimulus ==
  (test \in {"single_word", "full_empty"} /\ pc \in StimulusPcs) =>
    /\ \A r \in ResetLines : rstn[r] = 1
    /\ started = Clocks
    /\ \A c \in Clocks : clk[c] # X /\ edges[c]
    /\ fifo_source.made /\ fifo_sink.made

C7_Witness ==
  /\ test = "full_empty" /\ pc = "read_wait" /\ round = 2
  /\ \A r \in ResetLines : rstn[r] = 1

\* The phase of the scenario's state machine the body is in.
Phase ==
  CASE pc = "start" -> "NOT_STARTED"
    [] pc \in {"drivers", "ir_rd_rstn"} -> "CLOCKING"
    [] pc \in {"rst_lo", "rst_timer", "rst_wait", "rst_hi"} -> "RESETTING"
    [] pc = "done" -> "DONE"
    [] OTHER -> "STIMULUS_CHECK"

Rank(ph) ==
  CASE ph = "NOT_STARTED" -> 0
    [] ph = "CLOCKING" -> 1
    [] ph = "RESETTING" -> 2
    [] ph = "STIMULUS_CHECK" -> 3
    [] OTHER -> 4

\* The body enters the stimulus and check phase.
EntersStimulus == Phase # "STIMULUS_CHECK" /\ Phase' = "STIMULUS_CHECK"

\* C8 as stated: every scenario moves through the phases in the order
\* NOT_STARTED, CLOCKING, RESETTING (optional), STIMULUS_CHECK, DONE, never
\* back; every scenario enters STIMULUS_CHECK from CLOCKING or RESETTING,
\* with the clocks started; nothing changes once DONE is reached.
C8_Original ==
  [][/\ Rank(Phase') >= Rank(Phase)
     /\ EntersStimulus => (Phase \in {"CLOCKING", "RESETTING"} /\ started = Clocks)
     /\ pc = "done" => UNCHANGED vars]_vars

\* C8 as amended: the phases are passed in that order, never back, and
\* nothing changes once DONE is reached; single_word and full_empty enter
\* STIMULUS_CHECK from RESETTING and in_reset from CLOCKING, each with the
\* clocks started; no_clock enters it from NOT_STARTED and never starts a
\* clock.
C8_Phases ==
  [][/\ Rank(Phase') >= Rank(Phase)
     /\ EntersStimulus =>
          CASE test \in {"single_word", "full_empty"} ->
                 Phase = "RESETTING" /\ started = Clocks
            [] test = "in_reset" -> Phase = "CLOCKING" /\ started = Clocks
            [] OTHER -> Phase = "NOT_STARTED" /\ started = {}
     /\ test = "no_clock" => (started' = {} /\ Phase' \in {"STIMULUS_CHECK", "DONE"})
     /\ pc = "done" => UNCHANGED vars]_vars

C8_Witness ==
  test = "no_clock" /\ pc = "done" /\ started = {} /\ outcome = "passed"

\* The assertion the body is about to execute does not hold.
AssertFails ==
  \/ pc = "assert" /\ rx_data[IF test = "single_word" THEN 1 ELSE k] # x
  \/ pc = "check_empty" /\ rd_empty # 1

\* C9: the step that executes a failing assertion ends the scenario as
\* failed; a scenario fails in no other way, and once it has failed nothing
\* happens any more (no write, read, wait or assertion, no pass).
C9_AbortOnFailure ==
  [][/\ AssertFails => (outcome' = "failed" /\ pc' = "done")
     /\ (outcome # "failed" /\ outcome' = "failed") => AssertFails
     /\ outcome = "failed" => UNCHANGED vars]_vars

C9_Witness ==
  /\ test = "full_empty" /\ outcome = "failed" /\ pc = "done"
  /\ k = 2 /\ rx_data[1] = x /\ rx_data[2] # x

\* The scenario failed on a data check.
DataFailure == outcome = "failed" /\ test \in {"single_word", "full_empty"}

InDriverCall == pc \in {"write_wait", "read_wait"}

\* What has to be true once the body is past the write call, and once it
\* is past the read call, of a round.
CallsComplete ==
  /\ pc \in {"read_call", "read_wait", "assert", "edge_wait"} => wr_pending = <<>>
  /\ pc \in {"assert", "edge_wait"} =>
       rd_need = 0 /\ Len(rx_data) = Len(Stimulus)
  /\ outcome = "passed" /\ test \in {"single_word", "full_empty"} =>
       wr_pending = <<>> /\ rd_need = 0

\* A step taken while the body is inside a driver call: the body stays in
\* the call or leaves it with every word transferred; meanwhile it issues
\* nothing, arms no timer, reports nothing and does not re-issue the call.
CallSteps ==
  /\ pc = "write_wait" =>
       \/ pc' = "write_wait" /\ Len(wr_pending') <= Len(wr_pending)
       \/ pc' = "read_call" /\ wr_pending' = <<>>
  /\ pc = "read_wait" =>
       \/ pc' = "read_wait" /\ rd_need' <= rd_need
       \/ pc' = "assert" /\ rd_need' = 0 /\ Len(rx_data') = Len(Stimulus)
  /\ InDriverCall =>
       /\ UNCHANGED <<test, ran, rb, x, round, timer, outcome, report, rstn, started>>
       /\ timer = 0

\* C11: a write or read call of scenario 1 or 2 either completes with all
\* the requested words transferred or keeps the body suspended: the body
\* leaves a call only by its completion, so a call that never completes
\* keeps the scenario from passing and from issuing any later write, read
\* or assertion, and the harness arms no timeout, retries nothing and
\* recovers nothing while it waits.
C11_Transactional == []CallsComplete /\ [][CallSteps]_vars

C11_Witness ==
  /\ test = "full_empty" /\ pc = "read_wait" /\ depth = MaxDepth
  /\ rd_need = 1 /\ Len(rx_data) = depth - 1 /\ round = 2

\* ---------------------------------------------------------------------
\* The read values of round r of a run, as a function of the scenario, the
\* depth and r alone.
ObservedInRound(r) ==
  [i \in 1..(IF test = "single_word" THEN 1 ELSE depth) |-> RangeStart + 1 - r]

\* C12: with a conforming, freshly reset device the values scenario 1 and
\* scenario 2 observe in a round, and the outcome, are a function of the
\* scenario, the depth and the round number only: whatever the handshake
\* mode and however long either clock domain stalls, two runs with the
\* same input observe the same values and end the same way.
C12_Deterministic ==
  Conforming /\ test \in {"single_word", "full_empty"} =>
    /\ pc = "read_wait" =>
         \A i \in 1..Len(rx_data) : rx_data[i] = ObservedInRound(round)[i]
    /\ pc \in {"assert", "edge_wait"} => rx_data = ObservedInRound(round)
    /\ outcome # "failed"
    /\ pc = "done" => outcome = "passed" /\ round = RangeStart + 1

C12_Witness ==
  /\ Conforming /\ test = "full_empty" /\ depth = MaxDepth /\ ack_ena /\ ~fwft
  /\ pc = "assert" /\ round = RangeStart + 1
  /\ rx_data = [i \in 1..depth |-> 0]

\* ---------------------------------------------------------------------
\* C13: in every scenario each of the six signals the harness drives is
\* written by at most one task: a clock whose clock task has been started
\* is never written by the scenario body, a clock the body writes has no
\* clock task, and the reset lines are written by the scenario body only.
C13_SingleWriter ==
  /\ \A s \in Signals : Cardinality(writers[s]) <= 1
  /\ \A c \in Clocks : c \in started => writers[c] \subseteq {ClockTask(c)}
  /\ \A c \in Clocks : Body \in writers[c] => c \notin started
  /\ \A r \in ResetLines : writers[r] \subseteq {Body}

C13_Witness ==
  /\ test = "full_empty" /\ pc = "done" /\ outcome = "passed"
  /\ \A c \in Clocks : writers[c] = {ClockTask(c)}
  /\ \A r \in ResetLines : writers[r] = {Body}

\* ---------------------------------------------------------------------
\* The scenario-local entities (clock tasks, driver objects, locals) are
\* those of a scenario that has not run yet.
FreshLocals ==
  /\ started = {} /\ \A c \in Clocks : ~due[c]
  /\ fifo_source = NoDriver /\ fifo_sink = NoDriver
  /\ wr_pending = <<>> /\ rd_need = 0 /\ rx_data = <<>>
  /\ round = 0 /\ k = 0 /\ timer = 0 /\ report = NoReport

\* No signal carries a level and the device holds nothing.
FreshSignals ==
  /\ \A r \in ResetLines : rstn[r] = X
  /\ \A c \in Clocks : clk[c] = X
  /\ fifo = <<>>

\* The outcome of the scenario when it is the only one run, for the
\* devices whose outcome is fixed (a device that corrupts data may or may
\* not be caught by single_word and full_empty).
OutcomeFixed == fault # "data" \/ test \in {"in_reset", "no_clock"}
SoloOutcome ==
  IF fault = "status" /\ test \in {"in_reset", "no_clock"} THEN "failed" ELSE "passed"

\* The outcome does not depend on what ran before, and the end of a
\* scenario, passed or failed, lets every later scenario start.
OutcomeIndependent ==
  /\ OutcomeFixed /\ pc = "done" => outcome = SoloOutcome
  /\ OutcomeFixed /\ outcome = "failed" => SoloOutcome = "failed"
  /\ pc = "done" /\ LaterTests(test) # {} => ENABLED NextTest

\* The scenario before this one.
Previous == ran[Len(ran)]

TimeAdvances == \E c \in Clocks : ~due[c] /\ due'[c]

\* What a step does to the clocks.
ClockSteps ==
  \* start_clock schedules the three tasks and returns to the body, which
  \* goes on without suspending; no clock has moved yet.
  /\ pc = "start" /\ pc' # "start" /\ test # "no_clock" =>
       /\ started' = Clocks
       /\ \A c \in Clocks : due'[c]
       /\ clk' = clk /\ timer' = timer
       /\ pc' \notin {"rst_wait", "write_wait", "read_wait", "edge_wait", "idle_wait"}
  \* No task is ever stopped.
  /\ started \subseteq started'
  \* A started clock changes level once in a time step, alternating.
  /\ \A c \in started :
       clk'[c] # clk[c] =>
         /\ due[c] /\ ~due'[c]
         /\ clk'[c] = (IF clk[c] = 1 THEN 0 ELSE 1)
         /\ \A d \in Clocks \ {c} : clk'[d] = clk[d]
  \* Time advances by half a period for all the clocks at once, and only
  \* when each of them has been driven in the current time step.
  /\ started # {} /\ TimeAdvances =>
       \A c \in started : ~due[c] /\ due'[c] /\ clk[c] # X

\* While the scenario runs and its body is suspended, a clock task or the
\* advance of time is always possible, unless the awaited Timer has fired
\* and the body itself resumes.
ClocksAlive ==
  outcome = "running" /\ Suspended /\ started = Clocks =>
    \/ ENABLED WrClkToggle
    \/ ENABLED RdClkToggle
    \/ ENABLED DataCountClkToggle
    \/ ENABLED Tick
    \/ TimerWait /\ timer = 0

\* C15: start_clock starts one task for each of wr_clk, rd_clk and
\* data_count_clk and returns without suspending the caller; the tasks
\* drive their clocks in the time step in which the body first suspends,
\* every clock then changes level exactly once per half period (period 1
\* time unit), so its edges come in increasing simulated-time order, and
\* no task is stopped while the scenario runs.
C15_StartClock == []ClocksAlive /\ [][ClockSteps]_vars

C15_Witness ==
  /\ test = "in_reset" /\ pc = "idle_wait" /\ timer = 1
  /\ started = Clocks /\ \A c \in Clocks : edges[c] /\ clk[c] = 0
  /\ rst_edges["rd_rstn"] = InResetWait

\* ---------------------------------------------------------------------
\* in_reset, state by state: the clocks move only under asserted resets,
\* no reset line is ever 1, no driver exists or is called, and the check
\* comes with the Timer fired and the three clocks running.
HeldInReset ==
  test = "in_reset" =>
    /\ (\E c \in Clocks : edges[c] \/ clk[c] # X) =>
         rstn["rd_rstn"] = 0 /\ rstn["wr_rstn"] = 0
    /\ \A r \in ResetLines : rstn[r] # 1
    /\ fifo_source = NoDriver /\ fifo_sink = NoDriver
    /\ wr_pending = <<>> /\ rd_need = 0 /\ rx_data = <<>> /\ round = 0
    /\ pc \notin {"write_call", "write_wait", "read_call", "read_wait", "assert"}
    /\ pc \in {"check_empty", "done"} =>
         /\ timer = 0 /\ started = Clocks
         /\ \A c \in Clocks : edges[c]

\* in_reset, step by step: the wait armed is the fixed one, time passes
\* during it with every clock toggling, and the check is entered from the
\* wait only, once it has elapsed.
InResetSteps ==
  test = "in_reset" =>
    /\ pc = "ir_timer" /\ pc' # pc => pc' = "idle_wait" /\ timer' = Ticks(InResetWait)
    /\ pc = "idle_wait" /\ timer' # timer =>
         timer' = timer - 1 /\ \A c \in Clocks : c \in started /\ due'[c]
    /\ pc' = "check_empty" /\ pc # "check_empty" => pc = "idle_wait" /\ timer = 0
    /\ \A r \in {"rd_rstn", "wr_rstn"} : rstn[r] = 0 => rstn'[r] = 0

\* C16: in_reset writes 0 to rd_rstn and wr_rstn before any clock task has
\* driven a clock, never writes 1 to a reset line, never creates or calls a
\* driver, and checks rd_empty only when its fixed wait has elapsed with
\* the three clocks toggling throughout.
C16_HeldInReset == []HeldInReset /\ [][InResetSteps]_vars

C16_Witness ==
  /\ test = "in_reset" /\ pc = "check_empty" /\ timer = 0
  /\ rstn = [r \in ResetLines |-> IF r = "data_count_rstn" THEN X ELSE 0]
  /\ \A c \in Clocks : edges[c]
  /\ rst_edges["wr_rstn"] > InResetWait

\* ---------------------------------------------------------------------
\* The rounds of single_word and full_empty, state by state.
RoundsCounted ==
  test \in {"single_word", "full_empty"} =>
    /\ round > 0 => x = RangeStart + 1 - round
    /\ pc \in {"write_call", "write_wait", "read_call"} =>
         words = (round - 1) * Len(Stimulus)
    /\ pc \in {"assert", "edge_wait"} => words = round * Len(Stimulus)
    /\ outcome = "passed" =>
         /\ round = 256 /\ x = 0
         /\ words = 256 * (IF test = "single_word" THEN 1 ELSE depth)

\* The rounds, step by step: the value goes down by one per round, and in
\* full_empty a round is followed by the wait for a rising rd_clk edge.
RoundSteps ==
  /\ x' # x => x' = x - 1 /\ round' = round + 1 /\ pc = "loop" /\ pc' = "write_call"
  /\ test = "full_empty" =>
       /\ pc = "edge_wait" /\ pc' # pc =>
            pc' = "loop" /\ clk["rd_clk"] = 0 /\ clk'["rd_clk"] = 1
       /\ pc' = "loop" /\ pc # "loop" /\ round > 0 => pc = "edge_wait"
       /\ pc' = "write_call" /\ pc # "write_call" => pc = "loop"

\* single_word and full_empty end, and end passed.
Terminates ==
  test \in {"single_word", "full_empty"} ~> (pc = "done" /\ outcome = "passed")

\* C17: when every driver call completes and no assertion fails,
\* single_word ends passed after exactly 256 rounds and full_empty after
\* exactly 256 rounds in which 256 * depth words have been read; the value
\* of the rounds goes 255, 254, ..., 0, one lower each round; full_empty
\* begins the next round only after a rising edge of rd_clk that follows
\* the round's last assertion.
C17_Termination == []RoundsCounted /\ [][RoundSteps]_vars /\ Terminates

C17_Witness ==
  /\ test = "full_empty" /\ depth = MaxDepth /\ ~fwft /\ ack_ena
  /\ pc = "done" /\ outcome = "passed"
  /\ round = 256 /\ words = 256 * depth

\* ---------------------------------------------------------------------
\* Words written and not yet read.
Occupancy == Len(fifo)

\* C18: in single_word at most 1 word, in full_empty at most depth words,
\* are written and not yet read; the FIFO is empty when a round begins and
\* when its write call is issued; the read call is issued only when the
\* write call has completed; every word a write call still holds has room
\* in the FIFO, and a read call asks for no more words than the FIFO holds.
C18_Occupancy ==
  test \in {"single_word", "full_empty"} =>
    /\ Occupancy <= (IF test = "single_word" THEN 1 ELSE depth)
    /\ pc \in {"loop", "write_call", "assert", "edge_wait"} => Occupancy = 0
    /\ pc \in {"read_call", "read_wait"} => wr_pending = <<>>
    /\ pc = "read_call" => Occupancy = Len(Stimulus)
    /\ pc = "write_wait" => Occupancy + Len(wr_pending) <= depth
    /\ pc = "read_wait" => rd_need <= Occupancy

C18_Witness ==
  /\ test = "full_empty" /\ depth = MaxDepth /\ pc = "read_wait"
  /\ Occupancy = depth /\ rd_need = depth /\ round = 3

\* ---------------------------------------------------------------------
\* The waits, step by step, in ticks of half a clock period: the settle
\* wait of reset_dut is armed with at least 5 time units, the idle waits of
\* in_reset and no_clock with 5 to 10 time units; an armed wait goes down
\* by one tick each time simulated time advances and ends at 0 only.
TimingSteps ==
  /\ pc = "rst_timer" /\ pc' # pc => timer' >= 5 * TogglesPerPeriod
  /\ pc \in {"ir_timer", "nc_timer"} /\ pc' # pc =>
       timer' >= 5 * TogglesPerPeriod /\ timer' <= 10 * TogglesPerPeriod
  /\ TimerWait /\ timer' # timer => timer' = timer - 1 /\ pc' = pc
  /\ TimerWait /\ pc' # pc => timer = 0 /\ timer' = 0

\* The waits measured in clock periods: a clock of period 1 gives one
\* rising edge per time unit, so reset_dut sees 5 rising edges of every
\* clock (6 with the one at the instant the wait ends) and in_reset sees
\* 10 (or 11) of rd_clk and wr_clk.
TimingEdges ==
  /\ test \in {"single_word", "full_empty"} /\ pc = "rst_hi" =>
       \A r \in ResetLines : rst_edges[r] \in {5, 6}
  /\ test = "in_reset" /\ pc = "check_empty" =>
       \A r \in {"rd_rstn", "wr_rstn"} : rst_edges[r] \in {10, 11}

\* C19: every clock the harness starts has a period of exactly 1 time
\* unit, the settle wait of reset_dut lasts at least 5 time units, that is
\* at least 5 periods of every clock, and the idle waits of in_reset and
\* no_clock last between 5 and 10 time units.
C19_Timing == []TimingEdges /\ [][TimingSteps]_vars

C19_Witness ==
  /\ test = "no_clock" /\ pc = "check_empty" /\ timer = 0
  /\ rstn["rd_rstn"] = 0 /\ clk["rd_clk"] = 0

\* ---------------------------------------------------------------------
\* The element at position n + 256 is the element at position n.
Periodic ==
  \A n \in 1..Len(rb_seq) :
    n + 256 <= Len(rb_seq) => rb_seq[n + 256] = rb_seq[n]

\* The iterator always has a next element, and it is a boolean.
NeverEnds ==
  /\ rb_pos > 0 /\ Len(rb_seq) < MaxDraws => ENABLED CycleNext
  /\ \A n \in 1..Len(rb_seq) : rb_seq[n] \in BOOLEAN

\* No scenario has called random_bool or taken an element from it (an
\* invariant of Spec and of SuiteSpec).
HelperUnused == rb_temp = <<>> /\ rb_pos = 0 /\ rb_seq = <<>>

\* C20: the iterator random_bool returns never ends and repeats with
\* period 256: the element at position n + 256 equals the element at
\* position n; building and using it leaves every variable of the
\* scenarios alone.
C20_RandomBool == [](Periodic /\ NeverEnds) /\ [][UNCHANGED scenario]_vars

C20_Witness ==
  /\ Len(rb_seq) = 2 * 256 + 2
  /\ rb_seq[1] /\ ~rb_seq[2] /\ rb_seq[257] /\ ~rb_seq[258] /\ rb_seq[513]

====
